---- MODULE Spec2Model ----
(***************************************************************************)
(* The autopart kickstart command of pykickstart                           *)
(* (src/pykickstart/commands/autopart.py): the class chain                 *)
(*   FC3 -> F9 -> F12 -> RHEL6                                             *)
(*                 F12 -> F16 -> F17 -> F18 -> F20 -> F21 -> F23 -> F26    *)
(*                                                    F21 -> RHEL7         *)
(* with its option tables (_getParser), parse() and __str__().             *)
(*                                                                         *)
(* Text is a sequence of lexemes: the literal pieces the code              *)
(* concatenates (" " and "\n" are lexemes of their own, so str.strip() and *)
(* the count of line terminators are computed, not assumed) and the        *)
(* attribute values, which are atoms free of whitespace and quotes.        *)
(* An argument handed to parse() is a record [opt, val]: the option string *)
(* and the explicit value of a "--opt=value" token (NoVal for a bare       *)
(* flag, opt = NoOpt for a positional word).                               *)
(***************************************************************************)
EXTENDS Integers, Sequences, FiniteSets, TLC

\* ------------------------------------------------------------- bounds ----
\* lines of the document that are handed to a directive
MaxLines == 3
\* autopart lines among them
MaxAutopart == 2
\* argument tokens on one autopart line
MaxArgs == 2

\* ---------------------------------------------------------- constants ----
None == "None"
\* Python's booleans, kept apart from the strings "" and None by name
True == "True"
False == "False"
\* an attribute the class of the instance never assigns
Absent == "<absent>"
\* a keyword argument the constructor was not given
Missing == "<missing>"
NoVal == "<noval>"
NoOpt == "<positional>"
Unwritten == <<"<unwritten>">>

AUTOPART_TYPE_PLAIN == "AUTOPART_TYPE_PLAIN"
AUTOPART_TYPE_BTRFS == "AUTOPART_TYPE_BTRFS"
AUTOPART_TYPE_LVM == "AUTOPART_TYPE_LVM"
AUTOPART_TYPE_LVM_THINP == "AUTOPART_TYPE_LVM_THINP"

Versions == {"FC3", "F9", "F12", "RHEL6", "F16", "F17", "F18", "F20", "F21", "F23", "RHEL7", "F26"}

\* the base class of each version class
Parent ==
  [v \in Versions \ {"FC3"} |->
     CASE v = "F9" -> "FC3"
       [] v = "F12" -> "F9"
       [] v = "RHEL6" -> "F12"
       [] v = "F16" -> "F12"
       [] v = "F17" -> "F16"
       [] v = "F18" -> "F17"
       [] v = "F20" -> "F18"
       [] v = "F21" -> "F20"
       [] v = "F23" -> "F21"
       [] v = "RHEL7" -> "F21"
       [] v = "F26" -> "F23"]

\* the classes an instance of the class of version v is an instance of
Bases[v \in Versions] == IF v = "FC3" THEN {v} ELSE {v} \cup Bases[Parent[v]]

\* isinstance: class v is class c or derives from it
IsA(v, c) == c \in Bases[v]

AttrNames == {"autopart", "encrypted", "passphrase", "escrowcert", "backuppassphrase",
              "cipher", "lvm", "type", "fstype", "nohome", "noboot", "noswap"}

\* kwargs.get(k, d)
Get(kwargs, k, d) == IF kwargs[k] = Missing THEN d ELSE kwargs[k]

\* ------------------------------------------------------- constructors ----
FC3_AutoPart_init(kwargs) ==
  [a \in AttrNames |-> IF a = "autopart" THEN Get(kwargs, "autopart", False) ELSE Absent]

F9_AutoPart_init(kwargs) ==
  [FC3_AutoPart_init(kwargs) EXCEPT !["encrypted"] = Get(kwargs, "encrypted", False),
                                    !["passphrase"] = Get(kwargs, "passphrase", "")]

F12_AutoPart_init(kwargs) ==
  [F9_AutoPart_init(kwargs) EXCEPT !["escrowcert"] = Get(kwargs, "escrowcert", ""),
                                   !["backuppassphrase"] = Get(kwargs, "backuppassphrase", False)]

RHEL6_AutoPart_init(kwargs) ==
  [F12_AutoPart_init(kwargs) EXCEPT !["cipher"] = Get(kwargs, "cipher", "")]

F16_AutoPart_init(kwargs) ==
  [F12_AutoPart_init(kwargs) EXCEPT !["lvm"] = Get(kwargs, "lvm", True)]

F17_AutoPart_init(kwargs) ==
  [F16_AutoPart_init(kwargs) EXCEPT !["type"] = Get(kwargs, "type", None)]

F18_AutoPart_init(kwargs) ==
  [F17_AutoPart_init(kwargs) EXCEPT !["cipher"] = Get(kwargs, "cipher", "")]

F20_AutoPart_init(kwargs) == F18_AutoPart_init(kwargs)

F21_AutoPart_init(kwargs) ==
  [F20_AutoPart_init(kwargs) EXCEPT !["fstype"] = Get(kwargs, "fstype", "")]

RHEL7_AutoPart_init(kwargs) ==
  [F21_AutoPart_init(kwargs) EXCEPT !["nohome"] = Get(kwargs, "nohome", False)]

F26_AutoPart_init(kwargs) ==
  [F21_AutoPart_init(kwargs) EXCEPT !["nohome"] = Get(kwargs, "nohome", False),
                                    !["noboot"] = Get(kwargs, "noboot", False),
                                    !["noswap"] = Get(kwargs, "noswap", False)]

\* the constructor of the class of version v (F23 defines none: F21's runs)
New(v, kwargs) ==
  CASE v = "FC3" -> FC3_AutoPart_init(kwargs)
    [] v = "F9" -> F9_AutoPart_init(kwargs)
    [] v = "F12" -> F12_AutoPart_init(kwargs)
    [] v = "RHEL6" -> RHEL6_AutoPart_init(kwargs)
    [] v = "F16" -> F16_AutoPart_init(kwargs)
    [] v = "F17" -> F17_AutoPart_init(kwargs)
    [] v = "F18" -> F18_AutoPart_init(kwargs)
    [] v = "F20" -> F20_AutoPart_init(kwargs)
    [] v = "F21" -> F21_AutoPart_init(kwargs)
    [] v = "F23" -> F21_AutoPart_init(kwargs)
    [] v = "RHEL7" -> RHEL7_AutoPart_init(kwargs)
    [] v = "F26" -> F26_AutoPart_init(kwargs)

\* self.typeMap, in the insertion order of the dict: F17's four entries, and
\* "thinp" appended by F20_AutoPart.__init__
F17_typeMap ==
  << <<"lvm", AUTOPART_TYPE_LVM>>, <<"btrfs", AUTOPART_TYPE_BTRFS>>,
     <<"plain", AUTOPART_TYPE_PLAIN>>, <<"partition", AUTOPART_TYPE_PLAIN>> >>

F20_typeMap == Append(F17_typeMap, <<"thinp", AUTOPART_TYPE_LVM_THINP>>)

typeMapOf == [v \in Versions |->
                IF IsA(v, "F20") THEN F20_typeMap ELSE IF IsA(v, "F17") THEN F17_typeMap ELSE <<>>]

typeMap(v) == typeMapOf[v]

\* ------------------------------------------------------ text helpers ----
Whitespace == {" ", "\n"}

RECURSIVE lstrip(_)
lstrip(t) == IF t # <<>> /\ Head(t) \in Whitespace THEN lstrip(Tail(t)) ELSE t

RECURSIVE rstrip(_)
rstrip(t) ==
  IF t # <<>> /\ t[Len(t)] \in Whitespace THEN rstrip(SubSeq(t, 1, Len(t) - 1)) ELSE t

\* str.strip(): leading and trailing whitespace removed
strip(t) == rstrip(lstrip(t))

\* bool(x) of an attribute value: False, "" and None are falsy
Truthy(x) == x \notin {False, "", None}

Contains(t, lex) == \E i \in 1..Len(t) : t[i] = lex

Count(t, lex) == Cardinality({i \in 1..Len(t) : t[i] = lex})

\* "%s" % value: the characters of the value as lexemes; a value that holds
\* whitespace is written with it
Chars(value) == IF value = "ext 4" THEN <<"ext", " ", "4">> ELSE <<value>>

\* ----------------------------------------------------------- __str__ ----
\* KickstartCommand.__str__: the empty string
KickstartCommand_str == <<>>

FC3_AutoPart_str(self) ==
  LET retval == KickstartCommand_str
  IN IF Truthy(self.autopart) THEN retval \o <<"autopart", "\n">> ELSE retval

F9_AutoPart_str(self) ==
  LET retval == KickstartCommand_str
  IN IF ~Truthy(self.autopart) THEN retval
     ELSE LET r1 == retval \o <<"autopart">>
              r2 == IF Truthy(self.encrypted)
                    THEN LET e == r1 \o <<" ", "--encrypted">>
                         IN IF Truthy(self.passphrase)
                            THEN e \o <<" ", "--passphrase=", "\"">> \o Chars(self.passphrase) \o <<"\"">>
                            ELSE e
                    ELSE r1
          IN r2 \o <<"\n">>

F12_AutoPart_str(self) ==
  LET rest(retval) ==
        IF ~Truthy(self.autopart) THEN retval
        ELSE IF Truthy(self.encrypted) /\ Truthy(self.escrowcert)
             THEN LET r1 == strip(retval) \o <<" ", "--escrowcert=", "\"">> \o Chars(self.escrowcert) \o <<"\"">>
                      r2 == IF Truthy(self.backuppassphrase)
                            THEN r1 \o <<" ", "--backuppassphrase">> ELSE r1
                  IN r2 \o <<"\n">>
             ELSE retval
  IN rest(F9_AutoPart_str(self))

RHEL6_AutoPart_str(self) ==
  LET rest(retval) ==
        IF ~Truthy(self.autopart) THEN retval
        ELSE IF Truthy(self.encrypted) /\ Truthy(self.cipher)
             THEN strip(retval) \o <<" ", "--cipher=", "\"">> \o Chars(self.cipher) \o <<"\"">> \o <<"\n">>
             ELSE retval
  IN rest(F12_AutoPart_str(self))

\* F16_AutoPart.__str__ with the test of lvm inverted
F16_AutoPart_str_NolvmWhenLvm(self) ==
  LET rest(retval) ==
        IF ~Truthy(self.autopart) THEN retval
        ELSE IF Truthy(self.lvm)
             THEN strip(retval) \o <<" ", "--nolvm">> \o <<"\n">>
             ELSE retval
  IN rest(F12_AutoPart_str(self))

F16_AutoPart_str(self) ==
  LET rest(retval) ==
        IF ~Truthy(self.autopart) THEN retval
        ELSE IF ~Truthy(self.lvm)
             THEN strip(retval) \o <<" ", "--nolvm">> \o <<"\n">>
             ELSE retval
  IN rest(F12_AutoPart_str(self))

RECURSIVE FirstKeyOf(_, _)
\* the for loop of _typeAsStr: the first key of the dict whose value is ty
FirstKeyOf(tm, ty) ==
  IF tm = <<>> THEN None
  ELSE IF Head(tm)[2] = ty THEN Head(tm)[1] ELSE FirstKeyOf(Tail(tm), ty)

F17_AutoPart_typeAsStr(v, self) ==
  LET rest(retval) == IF retval = "partition" THEN "plain" ELSE retval
  IN rest(FirstKeyOf(typeMap(v), self.type))

F17_AutoPart_str(v, self) ==
  LET rest(retval, ty) ==
        IF ~Truthy(self.autopart) THEN retval
        ELSE IF Truthy(ty) THEN strip(retval) \o <<" ", "--type=", ty, "\n">> ELSE retval
  IN rest(F16_AutoPart_str(self), F17_AutoPart_typeAsStr(v, self))

\* F18_AutoPart.__str__ without the test of encrypted
F18_AutoPart_str_CipherUngated(v, self) ==
  LET rest(retval) ==
        IF ~Truthy(self.autopart) THEN retval
        ELSE IF Truthy(self.cipher)
             THEN strip(retval) \o <<" ", "--cipher=", "\"">> \o Chars(self.cipher) \o <<"\"">> \o <<"\n">>
             ELSE retval
  IN rest(F17_AutoPart_str(v, self))

F18_AutoPart_str(v, self) ==
  LET rest(retval) ==
        IF ~Truthy(self.autopart) THEN retval
        ELSE IF Truthy(self.encrypted) /\ Truthy(self.cipher)
             THEN strip(retval) \o <<" ", "--cipher=", "\"">> \o Chars(self.cipher) \o <<"\"">> \o <<"\n">>
             ELSE retval
  IN rest(F17_AutoPart_str(v, self))

\* F21_AutoPart.__str__ without the strip before the append
F21_AutoPart_str_NoStrip(v, self) ==
  LET rest(retval) ==
        IF ~Truthy(self.autopart) THEN retval
        ELSE IF Truthy(self.fstype)
             THEN retval \o <<" ", "--fstype=">> \o Chars(self.fstype) \o <<"\n">>
             ELSE retval
  IN rest(F18_AutoPart_str(v, self))

F21_AutoPart_str(v, self) ==
  LET rest(retval) ==
        IF ~Truthy(self.autopart) THEN retval
        ELSE IF Truthy(self.fstype)
             THEN strip(retval) \o <<" ", "--fstype=">> \o Chars(self.fstype) \o <<"\n">>
             ELSE retval
  IN rest(F18_AutoPart_str(v, self))

RHEL7_AutoPart_str(v, self) ==
  LET rest(retval) ==
        IF ~Truthy(self.autopart) THEN retval
        ELSE IF Truthy(self.nohome)
             THEN strip(retval) \o <<" ", "--nohome">> \o <<"\n">>
             ELSE retval
  IN rest(F21_AutoPart_str(v, self))

\* the three appends of F26_AutoPart.__str__, each on the result of the one before
F26_nohome(self, retval) ==
  IF Truthy(self.nohome) THEN strip(retval) \o <<" ", "--nohome">> \o <<"\n">> ELSE retval

F26_noboot(self, retval) ==
  IF Truthy(self.noboot) THEN strip(retval) \o <<" ", "--noboot">> \o <<"\n">> ELSE retval

F26_noswap(self, retval) ==
  IF Truthy(self.noswap) THEN strip(retval) \o <<" ", "--noswap">> \o <<"\n">> ELSE retval

F26_AutoPart_str(v, self) ==
  LET rest(retval) ==
        IF ~Truthy(self.autopart) THEN retval
        ELSE F26_noswap(self, F26_noboot(self, F26_nohome(self, retval)))
  IN rest(F21_AutoPart_str(v, self))

\* the __str__ that class c defines or inherits, run on an instance of class v
StrOf(c, v, self) ==
  CASE c = "FC3" -> FC3_AutoPart_str(self)
    [] c = "F9" -> F9_AutoPart_str(self)
    [] c = "F12" -> F12_AutoPart_str(self)
    [] c = "RHEL6" -> RHEL6_AutoPart_str(self)
    [] c = "F16" -> F16_AutoPart_str(self)
    [] c = "F17" -> F17_AutoPart_str(v, self)
    [] c \in {"F18", "F20"} -> F18_AutoPart_str(v, self)
    [] c \in {"F21", "F23"} -> F21_AutoPart_str(v, self)
    [] c = "RHEL7" -> RHEL7_AutoPart_str(v, self)
    [] c = "F26" -> F26_AutoPart_str(v, self)

\* str(self) of an instance of the class of version v
Str(v, self) == StrOf(v, v, self)

\* -------------------------------------------------------- _getParser ----
\* An option of the parser: option string, argparse action, destination,
\* default, constant (store_const), whether type=self._type_cb converts it,
\* and the version= the option is declared with.
Option(opt, action, dest, default, const, cb, ver) ==
  [opt |-> opt, action |-> action, dest |-> dest, default |-> default, const |-> const,
   cb |-> cb, version |-> ver]

RECURSIVE Without(_, _)
Without(op, opt) ==
  IF op = <<>> THEN <<>>
  ELSE IF Head(op).opt = opt THEN Without(Tail(op), opt)
       ELSE <<Head(op)>> \o Without(Tail(op), opt)

\* op.add_argument(...): the parser resolves a clash of option strings by
\* dropping the option registered earlier, and appends the new one
add_argument(op, o) == Append(Without(op, o.opt), o)

FC3_AutoPart_getParser == <<>>

F9_AutoPart_getParser ==
  LET op == FC3_AutoPart_getParser
      o1 == add_argument(op, Option("--encrypted", "store_true", "encrypted", False, None, FALSE, "F9"))
  IN add_argument(o1, Option("--passphrase", "store", "passphrase", None, None, FALSE, "F9"))

F12_AutoPart_getParser ==
  LET op == F9_AutoPart_getParser
      o1 == add_argument(op, Option("--escrowcert", "store", "escrowcert", None, None, FALSE, "F12"))
  IN add_argument(o1, Option("--backuppassphrase", "store_true", "backuppassphrase", False, None, FALSE, "F12"))

RHEL6_AutoPart_getParser ==
  LET op == F12_AutoPart_getParser
  IN add_argument(op, Option("--cipher", "store", "cipher", None, None, FALSE, "RHEL6"))

F16_AutoPart_getParser ==
  LET op == F12_AutoPart_getParser
  IN add_argument(op, Option("--nolvm", "store_false", "lvm", True, None, FALSE, "F16"))

\* F17_AutoPart._getParser without the redefinition of --nolvm
F17_AutoPart_getParser_NolvmKept ==
  LET op == F16_AutoPart_getParser
  IN add_argument(op, Option("--type", "store", "type", None, None, TRUE, "F17"))

F17_AutoPart_getParser ==
  LET op == F16_AutoPart_getParser
      o1 == add_argument(op, Option("--nolvm", "store_const", "type", None, AUTOPART_TYPE_PLAIN, FALSE, "F17"))
  IN add_argument(o1, Option("--type", "store", "type", None, None, TRUE, "F17"))

\* F18_AutoPart._getParser without --cipher
F18_AutoPart_getParser_NoCipher == F17_AutoPart_getParser

F18_AutoPart_getParser ==
  LET op == F17_AutoPart_getParser
  IN add_argument(op, Option("--cipher", "store", "cipher", None, None, FALSE, "F18"))

\* only the help text of --type changes
F20_AutoPart_getParser == F18_AutoPart_getParser

F21_AutoPart_getParser ==
  LET op == F20_AutoPart_getParser
  IN add_argument(op, Option("--fstype", "store", "fstype", None, None, FALSE, "F21"))

RHEL7_AutoPart_getParser ==
  LET op == F21_AutoPart_getParser
  IN add_argument(op, Option("--nohome", "store_true", "nohome", False, None, FALSE, "RHEL7"))

F26_AutoPart_getParser ==
  LET op == F21_AutoPart_getParser
      o1 == add_argument(op, Option("--nohome", "store_true", "nohome", False, None, FALSE, "F26"))
      o2 == add_argument(o1, Option("--noboot", "store_true", "noboot", False, None, FALSE, "F26"))
  IN add_argument(o2, Option("--noswap", "store_true", "noswap", False, None, FALSE, "F26"))

\* self._getParser() of an instance of the class of version v
getParserOf(v) ==
  CASE v = "FC3" -> FC3_AutoPart_getParser
    [] v = "F9" -> F9_AutoPart_getParser
    [] v = "F12" -> F12_AutoPart_getParser
    [] v = "RHEL6" -> RHEL6_AutoPart_getParser
    [] v = "F16" -> F16_AutoPart_getParser
    [] v = "F17" -> F17_AutoPart_getParser
    [] v = "F18" -> F18_AutoPart_getParser
    [] v = "F20" -> F20_AutoPart_getParser
    [] v \in {"F21", "F23"} -> F21_AutoPart_getParser
    [] v = "RHEL7" -> RHEL7_AutoPart_getParser
    [] v = "F26" -> F26_AutoPart_getParser

\* self.op, built once by F9_AutoPart.__init__
op_ == [v \in Versions |-> getParserOf(v)]

getParser(v) == op_[v]

\* ------------------------------------------------------------- errors ----
\* The kinds of KickstartParseError, told apart by the message raised.
UnexpectedArgument == "UnexpectedArgument"
UnknownOption == "UnknownOption"
InvalidOptionValue == "InvalidOptionValue"
ConflictingDirectives == "ConflictingDirectives"
InvalidOptionCombination == "InvalidOptionCombination"
Errors == {UnexpectedArgument, UnknownOption, InvalidOptionValue,
           ConflictingDirectives, InvalidOptionCombination}

\* --------------------------------------------------------- parse_args ----
RECURSIVE KeyIn(_, _)
KeyIn(tm, k) == IF tm = <<>> THEN FALSE ELSE Head(tm)[1] = k \/ KeyIn(Tail(tm), k)

RECURSIVE ValueOf(_, _)
ValueOf(tm, k) == IF Head(tm)[1] = k THEN Head(tm)[2] ELSE ValueOf(Tail(tm), k)

\* str.lower() of the values the model draws
lower(s) == IF s = "LVM" THEN "lvm" ELSE s

\* _type_cb: the scheme named by value, or None standing for the error raised
F17_AutoPart_type_cb(v, value) ==
  IF KeyIn(typeMap(v), lower(value)) THEN ValueOf(typeMap(v), lower(value)) ELSE None

RECURSIVE Has(_, _)
\* an option is registered under the option string
Has(op, opt) == IF op = <<>> THEN FALSE ELSE Head(op).opt = opt \/ Has(Tail(op), opt)

RECURSIVE Find(_, _)
\* the option registered under an option string
Find(op, opt) == IF Head(op).opt = opt THEN Head(op) ELSE Find(Tail(op), opt)

Dests(op) == {op[i].dest : i \in 1..Len(op)}

RECURSIVE FirstDefault(_, _)
FirstDefault(op, d) == IF Head(op).dest = d THEN Head(op).default ELSE FirstDefault(Tail(op), d)

\* the namespace before any token is consumed: every destination at the
\* default of the first option registered for it; Absent where the parser
\* has no such destination
Defaults(op) ==
  [a \in AttrNames |-> IF a \in Dests(op) THEN FirstDefault(op, a) ELSE Absent]

RECURSIVE Consume(_, _, _, _, _)
\* The tokens are consumed left to right, each storing into its destination;
\* a failing type callback raises at once; tokens no option claims are
\* collected and reported when the line is exhausted.
Consume(v, op, args, ns, extras) ==
  IF args = <<>>
  THEN IF extras = <<>> THEN [error |-> None, ns |-> ns]
       ELSE [error |-> IF Head(extras).opt = NoOpt THEN UnexpectedArgument ELSE UnknownOption,
             ns |-> ns]
  ELSE LET a == Head(args)
           o == Find(op, a.opt)
       IN IF a.opt = NoOpt \/ ~Has(op, a.opt)
          THEN Consume(v, op, Tail(args), ns, Append(extras, a))
          ELSE IF o.action = "store_true"
               THEN Consume(v, op, Tail(args), [ns EXCEPT ![o.dest] = True], extras)
          ELSE IF o.action = "store_false"
               THEN Consume(v, op, Tail(args), [ns EXCEPT ![o.dest] = False], extras)
          ELSE IF o.action = "store_const"
               THEN Consume(v, op, Tail(args), [ns EXCEPT ![o.dest] = o.const], extras)
          ELSE IF o.cb
               THEN LET ty == F17_AutoPart_type_cb(v, a.val)
                    IN IF ty = None THEN [error |-> InvalidOptionValue, ns |-> ns]
                       ELSE Consume(v, op, Tail(args), [ns EXCEPT ![o.dest] = ty], extras)
          ELSE Consume(v, op, Tail(args), [ns EXCEPT ![o.dest] = a.val], extras)

DefaultsOf == [v \in Versions |-> Defaults(getParser(v))]

\* self.op.parse_args(args=args, lineno=self.lineno)
parse_args(v, args) == Consume(v, getParser(v), args, DefaultsOf[v], <<>>)

\* self.set_to_self(ns): every value of the namespace that is not None is
\* assigned to the attribute of the same name
set_to_self(self, ns) ==
  [a \in AttrNames |-> IF ns[a] \notin {Absent, None} THEN ns[a] ELSE self[a]]

\* -------------------------------------------------------------- parse ----
\* What a call of parse leaves behind: the instance, "ok" or the kind of the
\* error raised, and the command the error message names.
Returned(self) == [self |-> self, result |-> "ok", conflict |-> None]
Raised(self, kind, cmd) == [self |-> self, result |-> kind, conflict |-> cmd]

FC3_AutoPart_parse(self, args) ==
  IF Len(args) > 0 THEN Raised(self, UnexpectedArgument, None)
  ELSE Returned([self EXCEPT !["autopart"] = True])

F9_AutoPart_parse(v, self, args) ==
  LET rest(r) ==
        IF r.error # None THEN Raised(self, r.error, None)
        ELSE Returned([set_to_self(self, r.ns) EXCEPT !["autopart"] = True])
  IN rest(parse_args(v, args))

\* the if/elif chain over the seen flags of the handler
conflicting_command(handler) ==
  IF handler["partition"] THEN "part/partition"
  ELSE IF handler["raid"] THEN "raid"
  ELSE IF handler["volgroup"] THEN "volgroup"
  ELSE IF handler["logvol"] THEN "logvol"
  ELSE ""

\* raise KickstartParseError if conflicting_command, else return retval
seen_check(retval, cmd) ==
  IF retval.result # "ok" THEN retval
  ELSE IF cmd # "" THEN Raised(retval.self, ConflictingDirectives, cmd) ELSE retval

RHEL6_AutoPart_parse(v, self, handler, args) ==
  seen_check(F9_AutoPart_parse(v, self, args), conflicting_command(handler))

F17_AutoPart_parse(v, self, args) ==
  LET rest(retval) ==
        IF retval.result # "ok" THEN retval
        ELSE Returned([retval.self EXCEPT !["lvm"] = True])
  IN rest(F9_AutoPart_parse(v, self, args))

\* F20_AutoPart.parse with the seen flags read before the line is parsed
F20_AutoPart_parse_CheckFirst(v, self, handler, args) ==
  IF conflicting_command(handler) # ""
  THEN Raised(self, ConflictingDirectives, conflicting_command(handler))
  ELSE F17_AutoPart_parse(v, self, args)

F20_AutoPart_parse(v, self, handler, args) ==
  seen_check(F17_AutoPart_parse(v, self, args), conflicting_command(handler))

F21_AutoPart_parse(v, self, handler, args) ==
  LET rest(retval) ==
        IF retval.result # "ok" THEN retval
        ELSE IF retval.self.fstype = "btrfs"
             THEN Raised(retval.self, InvalidOptionCombination, None)
        ELSE IF F17_AutoPart_typeAsStr(v, retval.self) = "btrfs" /\ Truthy(retval.self.fstype)
             THEN Raised(retval.self, InvalidOptionCombination, None)
        ELSE retval
  IN rest(F20_AutoPart_parse(v, self, handler, args))

\* hasattr(self.handler, "reqpart") and self.handler.reqpart.seen
reqpart_command(handler) ==
  IF "reqpart" \in DOMAIN handler /\ handler["reqpart"] THEN "reqpart" ELSE ""

F23_AutoPart_parse(v, self, handler, args) ==
  seen_check(F21_AutoPart_parse(v, self, handler, args), reqpart_command(handler))

RHEL7_AutoPart_parse(v, self, handler, args) ==
  seen_check(F21_AutoPart_parse(v, self, handler, args), reqpart_command(handler))

\* self.parse(args) of an instance of the class of version v
parse(v, self, handler, args) ==
  CASE v = "FC3" -> FC3_AutoPart_parse(self, args)
    [] v \in {"F9", "F12", "F16"} -> F9_AutoPart_parse(v, self, args)
    [] v = "RHEL6" -> RHEL6_AutoPart_parse(v, self, handler, args)
    [] v \in {"F17", "F18"} -> F17_AutoPart_parse(v, self, args)
    [] v = "F20" -> F20_AutoPart_parse(v, self, handler, args)
    [] v = "F21" -> F21_AutoPart_parse(v, self, handler, args)
    [] v \in {"F23", "F26"} -> F23_AutoPart_parse(v, self, handler, args)
    [] v = "RHEL7" -> RHEL7_AutoPart_parse(v, self, handler, args)

\* ------------------------------------------------------------ inputs ----
Flag(opt) == [opt |-> opt, val |-> NoVal]
Valued(opt, val) == [opt |-> opt, val |-> val]
Word(w) == [opt |-> NoOpt, val |-> w]

\* the argument tokens a line is made of
Tokens ==
  {Flag("--encrypted"), Valued("--passphrase", "x"), Valued("--escrowcert", "u"),
   Flag("--backuppassphrase"), Valued("--cipher", "c"), Flag("--nolvm"),
   Valued("--type", "lvm"), Valued("--type", "LVM"), Valued("--type", "btrfs"),
   Valued("--type", "plain"), Valued("--type", "partition"), Valued("--type", "thinp"),
   Valued("--type", "bogus"),
   Valued("--fstype", "ext4"), Valued("--fstype", "btrfs"), Valued("--fstype", "ext 4"),
   Flag("--nohome"), Flag("--noboot"), Flag("--noswap"), Word("foo")}

ArgLines == UNION {[1..n -> Tokens] : n \in 0..MaxArgs}

\* the partitioning commands of the handler whose seen flag parse reads;
\* reqpart exists in the handlers of F23, RHEL7 and later only
HandlerCommands(v) ==
  {"partition", "raid", "volgroup", "logvol"}
    \cup (IF IsA(v, "F23") \/ IsA(v, "RHEL7") THEN {"reqpart"} ELSE {})

NoKwargs == [a \in AttrNames |-> Missing]

\* ------------------------------------------------------------ reader ----
\* The document reader: a line is split on whitespace outside quotes, the
\* quotes are dropped, the first word is the command and the rest are its
\* arguments.
RECURSIVE Split(_, _, _, _)
\* words: the words finished so far; cur: the lexemes of the word being read
Split(t, words, cur, quoted) ==
  LET flush == IF cur = <<>> THEN words ELSE Append(words, cur)
  IN IF t = <<>> THEN flush
     ELSE IF Head(t) = "\"" THEN Split(Tail(t), words, cur, ~quoted)
     ELSE IF Head(t) \in Whitespace /\ ~quoted THEN Split(Tail(t), flush, <<>>, quoted)
     ELSE Split(Tail(t), words, Append(cur, Head(t)), quoted)

\* the lexemes "--opt=" that carry an explicit value, and their option strings
EqLexemes ==
  [l \in {"--passphrase=", "--escrowcert=", "--cipher=", "--type=", "--fstype="} |->
     CASE l = "--passphrase=" -> "--passphrase"
       [] l = "--escrowcert=" -> "--escrowcert"
       [] l = "--cipher=" -> "--cipher"
       [] l = "--type=" -> "--type"
       [] l = "--fstype=" -> "--fstype"]

FlagLexemes == {"--encrypted", "--backuppassphrase", "--nolvm", "--nohome", "--noboot", "--noswap"}

\* the value the lexemes after "--opt=" spell
Value(lexemes) ==
  IF lexemes = <<>> THEN ""
  ELSE IF lexemes = Chars("ext 4") THEN "ext 4"
  ELSE Head(lexemes)

\* one word of the line as the argument token parse is handed
ToArg(w) ==
  IF Head(w) \in DOMAIN EqLexemes
  THEN Valued(EqLexemes[Head(w)], Value(Tail(w)))
  ELSE IF Head(w) \in FlagLexemes /\ Len(w) = 1 THEN Flag(Head(w))
  ELSE Word(Head(w))

\* the text of a written command, read again by a fresh handler of version v
\* in which nothing else was seen: the instance and the outcome of parse.
\* The empty text holds no autopart line, so nothing is parsed.
Reparse(v, t) ==
  LET words == Split(t, <<>>, <<>>, FALSE)
      fresh == New(v, NoKwargs)
      nothing == [k \in HandlerCommands(v) |-> FALSE]
  IN IF t = <<>> THEN [self |-> fresh, result |-> "none", conflict |-> None]
     ELSE IF Count(t, "\n") # 1 \/ t[Len(t)] # "\n" \/ words = <<>> \/ Head(words) # <<"autopart">>
          THEN [self |-> fresh, result |-> "NotOneAutopartLine", conflict |-> None]
     ELSE parse(v, fresh, nothing, [i \in 1..(Len(words) - 1) |-> ToArg(words[i + 1])])

\* the keyword arguments a caller may construct the command with
KwargSets ==
  [autopart : {Missing, True}, encrypted : {Missing, True}, passphrase : {Missing, "x"},
   escrowcert : {Missing, "u"}, backuppassphrase : {Missing, True}, cipher : {Missing, "c"},
   lvm : {Missing, False},
   type : {Missing, AUTOPART_TYPE_LVM, AUTOPART_TYPE_BTRFS, AUTOPART_TYPE_PLAIN, AUTOPART_TYPE_LVM_THINP},
   fstype : {Missing, "ext4", "btrfs"},
   nohome : {Missing, True}, noboot : {Missing, True}, noswap : {Missing, True}]

\* ------------------------------------------------------------- state ----
\* version: the version of the handler; self: the attributes of its autopart
\* command; handler: the seen flag of the other partitioning commands;
\* lineno: lines of the document read; nauto: autopart lines among them;
\* args: the arguments of the line parse was last handed; result, conflict:
\* how that call ended and the command its error names ("none" when the last
\* line was not an autopart line); out: the text written for the command.
VARIABLES version, self, handler, lineno, nauto, args, result, conflict, out
vars == <<version, self, handler, lineno, nauto, args, result, conflict, out>>

\* A handler of some version, its autopart command built with no keyword
\* arguments, nothing seen, nothing parsed, nothing written.
Init ==
  /\ version \in Versions
  /\ self = New(version, NoKwargs)
  /\ handler = [k \in HandlerCommands(version) |-> FALSE]
  /\ lineno = 0
  /\ nauto = 0
  /\ args = <<>>
  /\ result = "none"
  /\ conflict = None
  /\ out = Unwritten

\* The next line of the document is an autopart line: the dispatcher hands
\* its arguments to parse.  An error raised ends the reading of the document.
Parse(line) ==
  /\ result \notin Errors
  /\ out = Unwritten
  /\ lineno < MaxLines
  /\ nauto < MaxAutopart
  /\ LET stored(r) == /\ self' = r.self
                       /\ result' = r.result
                       /\ conflict' = r.conflict
     IN stored(parse(version, self, handler, line))
  /\ args' = line
  /\ lineno' = lineno + 1
  /\ nauto' = nauto + 1
  /\ UNCHANGED <<version, handler, out>>

\* The next line of the document is another partitioning command: the
\* dispatcher marks that command seen.
OtherDirective(k) ==
  /\ result \notin Errors
  /\ out = Unwritten
  /\ lineno < MaxLines
  /\ handler' = [handler EXCEPT ![k] = TRUE]
  /\ lineno' = lineno + 1
  /\ args' = <<>>
  /\ result' = "none"
  /\ conflict' = None
  /\ UNCHANGED <<version, self, nauto, out>>

\* The document, read without an error, is written back: str() of the command.
Write ==
  /\ result \notin Errors
  /\ out = Unwritten
  /\ out' = Str(version, self)
  /\ UNCHANGED <<version, self, handler, lineno, nauto, args, result, conflict>>

Next ==
  \/ \E line \in ArgLines : Parse(line)
  \/ \E k \in DOMAIN handler : OtherDirective(k)
  \/ Write

Spec == Init /\ [][Next]_vars

\* The command constructed with any keyword arguments and written, as a
\* caller of the library builds and prints it.
InitKw ==
  /\ version \in Versions
  /\ \E kwargs \in KwargSets : self = New(version, kwargs)
  /\ handler = [k \in HandlerCommands(version) |-> FALSE]
  /\ lineno = 0
  /\ nauto = 0
  /\ args = <<>>
  /\ result = "none"
  /\ conflict = None
  /\ out = Unwritten

NextKw == Write

SpecKw == InitKw /\ [][NextKw]_vars

\* ============================================================ claims ====
\* the attribute is one the class assigns and its value is truthy
IsSet(s, a) == s[a] # Absent /\ Truthy(s[a])

Written == out # Unwritten

\* a line of the document was an autopart line and parse returned
Parsed == result = "ok"

\* no dependent value is held without its prerequisite
Gated(s) ==
  /\ (IsSet(s, "passphrase") \/ IsSet(s, "escrowcert") \/ IsSet(s, "cipher")) => IsSet(s, "encrypted")
  /\ IsSet(s, "backuppassphrase") => (IsSet(s, "encrypted") /\ IsSet(s, "escrowcert"))

\* no value of the command holds whitespace
NoWhitespace(s) == \A a \in AttrNames : Len(Chars(s[a])) = 1

\* C1, as claimed: every state that successful parses reach is the state a
\* fresh command of the same version parses from the text written for it,
\* attribute by attribute.
C1_RoundTripEveryState ==
  (Written /\ Parsed) =>
     (Reparse(version, out).result = "ok" /\ Reparse(version, out).self = self)

\* C1, amended: the round trip holds for the states reached by successful
\* parses in which passphrase, escrowcert and cipher are empty unless
\* encrypted is set, backuppassphrase is false unless encrypted and
\* escrowcert are set, and no value holds whitespace.
C1_RoundTripGated ==
  (Written /\ Parsed /\ Gated(self) /\ NoWhitespace(self)) =>
     (Reparse(version, out).result = "ok" /\ Reparse(version, out).self = self)

\* C1 witness: an encrypted command with passphrase, escrow certificate,
\* scheme and filesystem type was parsed, written and read back.
C1_Witness ==
  /\ Written /\ Parsed /\ version = "F21"
  /\ self.encrypted = True /\ self.passphrase = "x" /\ self.type = AUTOPART_TYPE_PLAIN
  /\ self.fstype = "ext4"
  /\ Reparse(version, out).self = self

\* C4: the written text holds --passphrase=, --escrowcert= or --cipher= only
\* beside --encrypted, and --backuppassphrase only beside --escrowcert=; a
\* dependent value held while its prerequisite is unset is not written.
C4_PrerequisiteGated ==
  Written =>
    /\ (Contains(out, "--passphrase=") \/ Contains(out, "--escrowcert=") \/ Contains(out, "--cipher="))
          => Contains(out, "--encrypted")
    /\ Contains(out, "--backuppassphrase") => Contains(out, "--escrowcert=")
    /\ ~IsSet(self, "encrypted") =>
          (\A l \in {"--passphrase=", "--escrowcert=", "--cipher=", "--backuppassphrase", "x", "u", "c"} :
              ~Contains(out, l))
    /\ ~IsSet(self, "escrowcert") => ~Contains(out, "--backuppassphrase")

\* C4 witness: passphrase, cipher and backup passphrase are held, encrypted
\* is unset, and the command was written.
C4_Witness ==
  /\ Written /\ version = "F18" /\ self.autopart = True
  /\ self.encrypted = False /\ self.passphrase = "x" /\ self.cipher = "c"
  /\ self.backuppassphrase = True /\ self.escrowcert = "u"

\* one line that starts with autopart and ends in its only line terminator
OneLine(t) ==
  /\ Len(t) >= 2
  /\ Head(t) = "autopart"
  /\ Count(t, "\n") = 1
  /\ t[Len(t)] = "\n"

\* C5: of a present command every layer of the __str__ chain returns one
\* autopart line ending in its only line terminator; of a command that is
\* not present every layer returns the empty string.
C5_SingleTerminator ==
  Written =>
    \A c \in Bases[version] :
       IF Truthy(self.autopart) THEN OneLine(StrOf(c, version, self))
       ELSE StrOf(c, version, self) = <<>>

\* C5 witness: a present F26 command that emits an option at every layer
\* that appends one was written.
C5_Witness ==
  /\ Written /\ version = "F26" /\ self.autopart = True
  /\ self.encrypted = True /\ self.escrowcert = "u" /\ self.cipher = "c"
  /\ self.type = AUTOPART_TYPE_LVM /\ self.fstype = "ext4"
  /\ self.nohome = True /\ self.noboot = True /\ self.noswap = True
  /\ OneLine(out)

\* C5 witness of the omission: attributes are left in a command that is not
\* present, and it was written.
C5_WitnessAbsent ==
  /\ Written /\ version = "F26" /\ self.autopart = False
  /\ self.encrypted = True /\ self.fstype = "ext4" /\ self.noswap = True

\* the classes whose _getParser registers the option (its version= argument)
DeclaringClasses(o) ==
  CASE o \in {"--encrypted", "--passphrase"} -> {"F9"}
    [] o \in {"--escrowcert", "--backuppassphrase"} -> {"F12"}
    [] o = "--cipher" -> {"RHEL6", "F18"}
    [] o = "--nolvm" -> {"F16", "F17"}
    [] o = "--type" -> {"F17"}
    [] o = "--fstype" -> {"F21"}
    [] o = "--nohome" -> {"RHEL7", "F26"}
    [] o \in {"--noboot", "--noswap"} -> {"F26"}

\* the release order of the versions
VersionOrder ==
  <<"FC3", "F9", "F12", "RHEL6", "F16", "F17", "F18", "F20", "F21", "RHEL7", "F23", "F26">>

Ord(v) == CHOOSE i \in 1..Len(VersionOrder) : VersionOrder[i] = v

\* the earliest version an option is declared with
IntroducedAt(o) ==
  CHOOSE c \in DeclaringClasses(o) : \A d \in DeclaringClasses(o) : Ord(c) <= Ord(d)

\* the last line handed to parse was one option token
OneOption == result # "none" /\ Len(args) = 1 /\ args[1].opt # NoOpt

\* how a command rejects an option it does not know: FC3 takes no argument
Rejection(v) == IF v = "FC3" THEN UnexpectedArgument ELSE UnknownOption

\* C2, as claimed: along the release order an option is rejected by every
\* version before the one it was introduced at and accepted by every version
\* at or after it.
C2_MonotoneInReleaseOrder ==
  OneOption =>
    (result = Rejection(version)) <=> (Ord(version) < Ord(IntroducedAt(args[1].opt)))

\* C2, amended: an option is accepted by the classes that declare it and the
\* classes derived from them, and rejected by every other class.
C2_DeclaredOrInherited ==
  OneOption =>
    (result = Rejection(version)) <=> ~(\E c \in DeclaringClasses(args[1].opt) : IsA(version, c))

\* C2 witness: --cipher, declared by RHEL6 and again by F18, was rejected by
\* F17, which lies between the two in the release order.
C2_Witness ==
  /\ version = "F17" /\ args = <<Valued("--cipher", "c")>> /\ result = UnknownOption

\* C3, as claimed: with partition seen a bare autopart line fails in every
\* version with a ConflictingDirectives error naming part/partition.
C3_PartitionBlocksEverywhere ==
  (nauto > 0 /\ result # "none" /\ args = <<>> /\ handler["partition"]) =>
     (result = ConflictingDirectives /\ conflict = "part/partition")

N_ == Flag("--nolvm")
T_(scheme) == Valued("--type", scheme)

\* C6: F16 parses --nolvm into lvm = False and writes it back as --nolvm;
\* F17 and later parse --type=plain, --type=partition and --nolvm into the
\* plain scheme with lvm = True and write --type=plain; F17 and later never
\* write --nolvm, F16 never writes --type=.
C6_VersionSyntax ==
  /\ (version = "F16" /\ nauto = 1 /\ Parsed /\ args = <<N_>>) =>
        /\ self.lvm = False
        /\ Written => out = <<"autopart", " ", "--nolvm", "\n">>
  /\ (IsA(version, "F17") /\ nauto = 1 /\ Parsed /\ args \in {<<T_("plain")>>, <<T_("partition")>>, <<N_>>}) =>
        /\ self.type = AUTOPART_TYPE_PLAIN
        /\ self.lvm = True
        /\ Written => out = <<"autopart", " ", "--type=", "plain", "\n">>
  /\ (IsA(version, "F17") /\ Written) => ~Contains(out, "--nolvm")
  /\ (version = "F16" /\ Written) => ~Contains(out, "--type=")

\* C6 witness: F17 parsed --nolvm and wrote --type=plain.
C6_Witness ==
  /\ version = "F17" /\ args = <<N_>> /\ Parsed /\ Written
  /\ out = <<"autopart", " ", "--type=", "plain", "\n">>

\* the scheme a token that writes type stands for
SchemeOf(tok) ==
  CASE tok.opt = "--nolvm" -> AUTOPART_TYPE_PLAIN
    [] tok.val \in {"lvm", "LVM"} -> AUTOPART_TYPE_LVM
    [] tok.val = "btrfs" -> AUTOPART_TYPE_BTRFS
    [] tok.val \in {"plain", "partition"} -> AUTOPART_TYPE_PLAIN
    [] tok.val = "thinp" -> AUTOPART_TYPE_LVM_THINP

\* parse_args returned: the values of the line were stored
Stored == result \in {"ok", ConflictingDirectives, InvalidOptionCombination}

\* the line gave --nolvm and --type=<scheme>, in either order
BothAliases ==
  /\ IsA(version, "F17") /\ Stored /\ Len(args) = 2
  /\ \E i \in {1, 2} : args[i] = N_ /\ args[3 - i].opt = "--type"

\* C7, as claimed: when a line gives both --nolvm and --type=<scheme>, type
\* is the scheme of --type, the option registered later, whatever the order
\* of the two tokens.
C7_LaterRegisteredWins ==
  BothAliases => \E i \in {1, 2} : args[i].opt = "--type" /\ self.type = SchemeOf(args[i])

\* the versions whose parse reads the seen flags
Checking == {"RHEL6", "F20", "F21", "F23", "RHEL7", "F26"}

AnySeen == \E k \in DOMAIN handler : handler[k]

BlameOrder == <<"partition", "raid", "volgroup", "logvol", "reqpart">>

IsSeen(k) == k \in DOMAIN handler /\ handler[k]

\* the first seen command in the blame order, as the error message names it
FirstSeen ==
  LET i == CHOOSE i \in 1..Len(BlameOrder) :
             IsSeen(BlameOrder[i]) /\ \A j \in 1..(i - 1) : ~IsSeen(BlameOrder[j])
  IN IF BlameOrder[i] = "partition" THEN "part/partition" ELSE BlameOrder[i]

\* C8, as claimed: in a version that reads the seen flags, a line whose
\* options parse fails with ConflictingDirectives whenever a command is seen,
\* and the error names the first seen command in the order partition, raid,
\* volgroup, logvol, reqpart.
C8_BlamePriority ==
  (version \in Checking /\ Stored /\ AnySeen) =>
     (result = ConflictingDirectives /\ conflict = FirstSeen)

\* --fstype=btrfs, or --fstype together with the btrfs scheme
InvalidFstype(s) ==
  s.fstype = "btrfs" \/ (s.type = AUTOPART_TYPE_BTRFS /\ Truthy(s.fstype))

\* C9, as claimed: in F21, F23, RHEL7 and F26 a line with an invalid fstype
\* combination fails with ConflictingDirectives whenever a command of the
\* exclusion set of the version is seen.
C9_SeenChecksFirst ==
  (IsA(version, "F21") /\ Stored /\ InvalidFstype(self) /\ AnySeen) =>
     result = ConflictingDirectives

OnLine(line, o) == \E i \in 1..Len(line) : line[i].opt = o

\* the explicit value of the last token of the line with the option string
LastVal(line, o, old) ==
  LET I == {i \in 1..Len(line) : line[i].opt = o}
  IN IF I = {} THEN old ELSE line[CHOOSE i \in I : \A j \in I : j <= i].val

LastScheme(line, old) ==
  LET I == {i \in 1..Len(line) : line[i].opt \in {"--nolvm", "--type"}}
  IN IF I = {} THEN old ELSE SchemeOf(line[CHOOSE i \in I : \A j \in I : j <= i])

BoolOf(b) == IF b THEN True ELSE False

\* s1 is s0 with the command present and the values of the line stored
StoredValues(v, line, s0, s1) ==
  /\ s1.autopart = True
  /\ s1.encrypted = BoolOf(OnLine(line, "--encrypted"))
  /\ s1.passphrase = LastVal(line, "--passphrase", s0.passphrase)
  /\ s1.escrowcert = LastVal(line, "--escrowcert", s0.escrowcert)
  /\ s1.backuppassphrase = BoolOf(OnLine(line, "--backuppassphrase"))
  /\ s1.cipher = LastVal(line, "--cipher", s0.cipher)
  /\ s1.lvm = IF IsA(v, "F17") THEN True ELSE s0.lvm
  /\ s1.type = IF IsA(v, "F17") THEN LastScheme(line, s0.type) ELSE s0.type
  /\ s1.fstype = IF IsA(v, "F21") THEN LastVal(line, "--fstype", s0.fstype) ELSE s0.fstype
  /\ s1.nohome = IF IsA(v, "RHEL7") \/ IsA(v, "F26") THEN BoolOf(OnLine(line, "--nohome")) ELSE s0.nohome
  /\ s1.noboot = IF IsA(v, "F26") THEN BoolOf(OnLine(line, "--noboot")) ELSE s0.noboot
  /\ s1.noswap = IF IsA(v, "F26") THEN BoolOf(OnLine(line, "--noswap")) ELSE s0.noswap

\* C10: in the versions that read the seen flags, a parse that fails with
\* ConflictingDirectives or InvalidOptionCombination leaves the command
\* present with the values of the line stored, and a parse that fails with
\* UnexpectedArgument, UnknownOption or InvalidOptionValue leaves the command
\* as it was.
C10_PresentBeforeValidation ==
  [][(version \in Checking /\ nauto' = nauto + 1) =>
        /\ result' \in {UnexpectedArgument, UnknownOption, InvalidOptionValue} => self' = self
        /\ result' \in {ConflictingDirectives, InvalidOptionCombination} =>
              StoredValues(version, args', self, self')]_vars

\* C10 witness: with raid seen, F20 parsed --encrypted --passphrase=x, failed
\* with ConflictingDirectives and holds the command present and encrypted.
C10_Witness ==
  /\ version = "F20" /\ handler["raid"] /\ result = ConflictingDirectives
  /\ args = <<Flag("--encrypted"), Valued("--passphrase", "x")>>
  /\ self.autopart = True /\ self.encrypted = True /\ self.passphrase = "x"

\* the scheme names written after --type=
TypeNames(t) == {t[i + 1] : i \in {j \in 1..(Len(t) - 1) : t[j] = "--type="}}

\* the names a version writes a scheme with
CanonicalNames(v) ==
  {"lvm", "btrfs", "plain"} \cup (IF IsA(v, "F20") THEN {"thinp"} ELSE {})

\* C11, as claimed: the text written for a state that successful parses
\* reached is accepted by parse of the same version when nothing else was seen, and the
\* command parsed from it is written as the same text; a scheme is written
\* with one of the names lvm, btrfs, plain or (F20 and later) thinp, whatever
\* alias it was parsed from, and no written line holds both --fstype= and
\* --type=btrfs.
C11_SerializationFixpoint ==
  (Written /\ nauto > 0) =>
     /\ Reparse(version, out).result = "ok"
     /\ Str(version, Reparse(version, out).self) = out
     /\ TypeNames(out) \subseteq CanonicalNames(version)
     /\ ~(Contains(out, "--fstype=") /\ "btrfs" \in TypeNames(out))

====
